---- MODULE Spec2Model ----
(***************************************************************************)
(* Model of OfflineAnalysisANS (src/src/ANS_reactivity/offline_processing  *)
(* .py): construction, weight validation, windowed extraction of heart     *)
(* rate / breathing rate / GSR, normalisation and scoring.                 *)
(*                                                                         *)
(* Numbers of the tables are exact rationals <<num, den>> (den > 0,        *)
(* reduced); <<0, 0>> is NaN.  Weights are counted in quarters, whose      *)
(* float sums are exact, so "sum == 1" of the code is q-sum = 4.           *)
(***************************************************************************)
EXTENDS Integers, Sequences, FiniteSets, TLC

\* ---------------------------------------------------------------- bounds
MaxLen == 4        \* longest recording (samples) in the data file
MaxRate == 2       \* largest sample_rate passed to the constructor

\* ------------------------------------------------------- rational numbers
NaN == <<0, 0>>

IsNA(x) == x[2] = 0

Abs(a) == IF a < 0 THEN -a ELSE a

RECURSIVE GCD(_, _)
GCD(a, b) == IF b = 0 THEN a ELSE GCD(b, a % b)

Rat(n, d) ==
    IF d = 0 THEN NaN
    ELSE LET g == GCD(Abs(n), Abs(d))
             s == IF d < 0 THEN -1 ELSE 1
         IN  << (s * n) \div g, (s * d) \div g >>

Int2Rat(i) == << i, 1 >>

RSub(x, y) == IF IsNA(x) \/ IsNA(y) THEN NaN
              ELSE Rat(x[1] * y[2] - y[1] * x[2], x[2] * y[2])

RAdd(x, y) == IF IsNA(x) \/ IsNA(y) THEN NaN
              ELSE Rat(x[1] * y[2] + y[1] * x[2], x[2] * y[2])

RMul(x, y) == IF IsNA(x) \/ IsNA(y) THEN NaN
              ELSE Rat(x[1] * y[1], x[2] * y[2])

\* pandas float division: x/0 is NaN or inf, and inf is NA under
\* use_inf_as_na (offline_processing.py:8); no ZeroDivisionError
RDiv(x, y) == IF IsNA(x) \/ IsNA(y) \/ y[1] = 0 THEN NaN
              ELSE Rat(x[1] * y[2], x[2] * y[1])

RLess(x, y) == x[1] * y[2] < y[1] * x[2]

RLeq(x, y) == x[1] * y[2] <= y[1] * x[2]

\* Series.min() / Series.max(): NA values are skipped, NaN when none is left
Defined(col) == { col[i] : i \in { j \in 1..Len(col) : ~IsNA(col[j]) } }

ColMin(col) ==
    IF Defined(col) = {} THEN NaN
    ELSE CHOOSE m \in Defined(col) : \A v \in Defined(col) : RLeq(m, v)

ColMax(col) ==
    IF Defined(col) = {} THEN NaN
    ELSE CHOOSE m \in Defined(col) : \A v \in Defined(col) : RLeq(v, m)

RECURSIVE SumSeq(_)
SumSeq(s) == IF s = <<>> THEN 0 ELSE Head(s) + SumSeq(Tail(s))

\* Python's // (floor division) for any nonzero divisor
FloorDiv(a, b) ==
    IF b > 0 THEN a \div b
    ELSE IF a >= 0 THEN -(((a + (-b) - 1)) \div (-b))
    ELSE (-a) \div (-b)

\* math.ceil(a / b) for a >= 0 and b # 0
CeilDiv(a, b) ==
    IF b > 0 THEN (a + b - 1) \div b
    ELSE -(a \div (-b))

\* ------------------------------------------------------- weights values
KEYS == << "ECG", "GSR", "RESP" >>

\* a Python value offered as a weight: its type and, for numbers, its value
\* in quarters (True is the int 1)
WVal(t, q) == [t |-> t, q |-> q]

WeightVals ==
    { WVal("int", 0), WVal("int", 4), WVal("float", 2), WVal("float", 1),
      WVal("float", -2), WVal("float", 6), WVal("bool", 4), WVal("str", 0) }

Item(k, v) == [k |-> k, v |-> v]

Dict(items) == [isdict |-> TRUE, items |-> items]

\* a value that is not a dict (the tuple of weights of src/Indexing.py:11)
NotADict == [isdict |-> FALSE, items |-> <<>>]

\* no weights attribute yet
NoWeights == [isdict |-> FALSE, items |-> << Item("unset", WVal("str", 0)) >>]

W3(a, b, c) == Dict(<< Item("ECG", a), Item("GSR", b), Item("RESP", c) >>)

\* the default argument {'ECG': 1/3, 'GSR': 1/3, 'RESP': 1/3} is not
\* expressible in quarters; (1/2, 1/4, 1/4) stands for a valid float set
DefaultWeights == W3(WVal("float", 2), WVal("float", 1), WVal("float", 1))

KeysOf(w) == [i \in 1..Len(w.items) |-> w.items[i].k]

ValuesOf(w) == [i \in 1..Len(w.items) |-> w.items[i].v.q]

Get(w, key) == (CHOOSE i \in 1..Len(w.items) : w.items[i].k = key)

IsNumber(v) == v.t \in {"int", "float", "bool"}

\* ------------------------------------------------- check_weights_input
Raise(exc, msg) == [exc |-> exc, msg |-> msg, ret |-> FALSE]

Return(ret) == [exc |-> "none", msg |-> "none", ret |-> ret]

check_weights_input_nonneg_missing(weights) ==
    IF ~weights.isdict
        THEN Raise("TypeError", "BAD_WEIGHTS_TYPE_MESSAGE")
    ELSE IF Len(weights.items) # 3
        THEN Raise("ValueError", "WEIGHTS_LENGTH_MESSAGE")
    ELSE IF KeysOf(weights) # KEYS
        THEN Raise("ValueError", "BAD_KEYS_NAMES_MESSAGE")
    ELSE IF ~(\A i \in 1..3 : IsNumber(weights.items[i].v))
        THEN Raise("TypeError", "WEIGHTS_ARE_NOT_NUMBERS_MESSAGE")
    ELSE IF SumSeq(ValuesOf(weights)) # 4
        THEN Raise("ValueError", "WEIGHTS_SUM_MESSAGE")
    ELSE Return(TRUE)

check_weights_input(weights) ==
    IF ~weights.isdict
        THEN Raise("TypeError", "BAD_WEIGHTS_TYPE_MESSAGE")
    ELSE IF Len(weights.items) # 3
        THEN Raise("ValueError", "WEIGHTS_LENGTH_MESSAGE")
    ELSE IF KeysOf(weights) # KEYS
        THEN Raise("ValueError", "BAD_KEYS_NAMES_MESSAGE")
    ELSE IF ~(\A i \in 1..3 : IsNumber(weights.items[i].v))
        THEN Raise("TypeError", "WEIGHTS_ARE_NOT_NUMBERS_MESSAGE")
    ELSE IF SumSeq(ValuesOf(weights)) # 4
        THEN Raise("ValueError", "WEIGHTS_SUM_MESSAGE")
    ELSE IF ~(\A i \in 1..3 : weights.items[i].v.q >= 0)
        THEN Raise("ValueError", "WEIGHTS_NEGATIVE_MESSAGE")
    ELSE Return(TRUE)

\* ------------------------------------------------------ inputs (bounded)
\* the candidates offered to the constructor and to change_weights while
\* the whole pipeline runs: two valid sets, one whose sum is 1.25, and two
\* dicts that lack RESP and hold a str under ECG or under GSR
CoreCandidates ==
    { DefaultWeights,
      W3(WVal("float", 2), WVal("float", 2), WVal("float", 0)),
      W3(WVal("float", 2), WVal("float", 2), WVal("float", 1)),
      Dict(<< Item("ECG", WVal("str", 0)), Item("GSR", WVal("float", 2)) >>),
      Dict(<< Item("ECG", WVal("float", 2)), Item("GSR", WVal("str", 0)) >>) }

\* every dict over the canonical keys, and dicts of the wrong shape
WideCandidates ==
    { W3(a, b, c) : a \in WeightVals, b \in WeightVals, c \in WeightVals }
    \cup { NotADict,
           Dict(<< >>),
           Dict(<< Item("ECG", WVal("int", 4)) >>),
           Dict(<< Item("ECG", WVal("float", 2)), Item("GSR", WVal("float", 2)) >>),
           Dict(<< Item("GSR", WVal("float", 2)), Item("ECG", WVal("float", 2)),
                   Item("RESP", WVal("int", 0)) >>),
           Dict(<< Item("ECG", WVal("float", 2)), Item("RESP", WVal("float", 2)),
                   Item("GSR", WVal("int", 0)) >>),
           Dict(<< Item("ECG", WVal("float", 2)), Item("GSR", WVal("float", 2)),
                   Item("HR", WVal("int", 0)) >>),
           Dict(<< Item("ecg", WVal("float", 2)), Item("GSR", WVal("float", 2)),
                   Item("RESP", WVal("int", 0)) >>),
           Dict(<< Item("ECG", WVal("float", 1)), Item("GSR", WVal("float", 1)),
                   Item("RESP", WVal("float", 1)), Item("HR", WVal("float", 1)) >>) }

\* a Python value offered as sample_rate / time_window
Arg(t, v) == [t |-> t, v |-> v]

SampleRates == { Arg("int", v) : v \in -1..MaxRate }
                 \cup { Arg("str", 0), Arg("float", 2) }

TimeWindows == { Arg("int", 0), Arg("int", 1), Arg("str", 0), Arg("float", 1) }

\* data_path: a str/Path of an existing file, one of a missing file, or a
\* value of another type
DataPaths == { "exists", "missing", "notapath" }

\* sample values of the GSR channel in the data file
GSRVals == { 0, 1 }

\* timestamp of the sample at 0-based index i
TimeAt(i) == 100 + i

Recordings ==
    UNION { { [TIME |-> [i \in 1..len |-> TimeAt(i - 1)],
               ECG  |-> [i \in 1..len |-> 0],
               GSR  |-> g,
               RESP |-> [i \in 1..len |-> 0]] : g \in [1..len -> GSRVals] }
            : len \in 0..MaxLen }

NoData == [TIME |-> << -1 >>, ECG |-> << >>, GSR |-> << >>, RESP |-> << >>]

\* ----------------------------------------------------------------- tables
\* a DataFrame: exists = FALSE while the attribute is not set; every column
\* has `rows` values; Stress_Score is present when scored
\* numeric: the columns of a float dtype; the others are of object dtype,
\* as pd.DataFrame(columns=...) creates them
NoTable == [exists |-> FALSE, rows |-> 0, scored |-> FALSE, TIME |-> << >>,
            ECG |-> << >>, RESP |-> << >>, GSR |-> << >>, Stress_Score |-> << >>,
            numeric |-> {}]

NaNs(n) == [i \in 1..n |-> NaN]

\* pd.DataFrame(columns=["TIME", "ECG", "RESP", "GSR"])
EmptyFrame == [NoTable EXCEPT !.exists = TRUE]

\* ------------------------------------------------------------------ state
VARIABLES
    file,            \* content of the CSV file at data_path
    constructed,     \* an instance exists
    sample_rate, time_window, n_samples, weights,
    raw_data,        \* self.raw_data (NoData while unset)
    channels,        \* self.time / self.ecg / self.resp / self.gsr
    processed_data, normal_data, scored_data,
    hr,              \* record of the last run of heart_rate
    last_call,       \* the last call: operation and exception raised
    arg_weights,     \* weights argument of the last __init__/change_weights
    old_table,       \* processed_data when the last normalizing_values began
    extracted        \* process_samples has completed without an exception

vars == << file, constructed, sample_rate, time_window, n_samples, weights,
           raw_data, channels, processed_data, normal_data, scored_data,
           hr, last_call, arg_weights, old_table, extracted >>

config == << sample_rate, time_window, n_samples >>

tables == << processed_data, normal_data, scored_data >>

Call(op, exc, msg) == [op |-> op, exc |-> exc, msg |-> msg]

NoHR == [called |-> FALSE, exc |-> "none", len |-> 0, n |-> 0,
         log |-> << >>, out |-> << >>]

Init ==
    /\ file \in Recordings
    /\ constructed = FALSE
    /\ sample_rate = 0 /\ time_window = 0 /\ n_samples = 0
    /\ weights = NoWeights
    /\ raw_data = NoData /\ channels = NoData
    /\ processed_data = NoTable /\ normal_data = NoTable /\ scored_data = NoTable
    /\ hr = NoHR
    /\ last_call = Call("none", "none", "none")
    /\ arg_weights = NoWeights
    /\ old_table = NoTable
    /\ extracted = FALSE

\* ------------------------------------------------------------- __init__
\* the exception __init__ raises for these arguments ("none": it returns)
init_outcome(data_path, sr, tw, w) ==
    IF data_path = "notapath"
        THEN Raise("TypeError", "BAD_PATH_TYPE_MESSAGE")
    ELSE IF data_path = "missing"
        THEN Raise("ValueError", "DIRECTORY_NOT_EXISTING_MESSAGE")
    ELSE IF sr.t # "int"
        THEN Raise("TypeError", "BAD_SAMPLE_RATE_TYPE_MESSAGE")
    ELSE IF tw.t # "int"
        THEN Raise("TypeError", "BAD_TIME_WINDOW_TYPE_MESSAGE")
    ELSE check_weights_input(w)

\* one constructor call per behaviour: it yields the instance or raises
OfflineAnalysisANS_init(Candidates) ==
    /\ ~constructed /\ last_call.op = "none"
    /\ \E data_path \in DataPaths, sr \in SampleRates, tw \in TimeWindows,
          w \in Candidates :
          LET r == init_outcome(data_path, sr, tw, w) IN
          /\ last_call' = Call("__init__", r.exc, r.msg)
          /\ arg_weights' = w
          /\ IF r.exc = "none"
                THEN /\ constructed' = TRUE
                     /\ sample_rate' = sr.v
                     /\ time_window' = tw.v
                     /\ weights' = w
                     /\ n_samples' = tw.v * sr.v
                ELSE UNCHANGED << constructed, config, weights >>
    /\ old_table' = NoTable
    /\ UNCHANGED << file, raw_data, channels, tables, hr, extracted >>

\* -------------------------------------------------------- change_weights
change_weights(Candidates) ==
    /\ constructed
    /\ \E new_weights \in Candidates :
          LET r == check_weights_input(new_weights) IN
          /\ arg_weights' = new_weights
          /\ last_call' = Call("change_weights", r.exc, r.msg)
          /\ weights' = IF r.exc # "none" THEN new_weights
                        ELSE IF ~r.ret THEN weights
                        ELSE new_weights
    /\ old_table' = NoTable
    /\ UNCHANGED << file, constructed, config, raw_data, channels, tables, hr,
                    extracted >>

\* ------------------------------------------------------------- read_data
\* pd.read_csv(self.data_path) with the columns renamed positionally
read_data ==
    /\ constructed
    /\ raw_data' = file
    /\ last_call' = Call("read_data", "none", "none")
    /\ arg_weights' = NoWeights /\ old_table' = NoTable
    /\ UNCHANGED << file, constructed, config, weights, channels, tables, hr,
                    extracted >>

\* ------------------------------------------------------------ heart_rate
\* outcome of hp.process on one chunk: a bpm, or an exception
Bpm(b) == [kind |-> "bpm", bpm |-> b]

DetFail == [kind |-> "fail", bpm |-> 0]

NotCalled == [kind |-> "notcalled", bpm |-> 0]

DetOutcomes == { Bpm(60), Bpm(100), Bpm(220), DetFail }

BpmLimit == 220

\* line 113: the comparison is with number_of_chunks, which the loop
\* variable never equals
chunk_end(data_chunks, number_of_chunks, n, len) ==
    IF data_chunks # number_of_chunks
        THEN (data_chunks + 1) * n
        ELSE len

\* self.ecg[np.arange(start, end)]: a lookup by label, which raises
\* KeyError when a label is not in the index 0..len-1
extract_ok(start, end, len) == \A i \in start..(end - 1) : i \in 0..(len - 1)

accept_bpm_leq(bpm_measured) == bpm_measured <= BpmLimit

accept_bpm(bpm_measured) == bpm_measured < BpmLimit

\* the log entry of chunk k (0-based) and its output, given the output of
\* the chunk before
chunk_entry(k, m, n, len, det, prev) ==
    LET start == k * n
        end   == chunk_end(k, m, n, len)
        ext   == extract_ok(start, end, len)
        d     == IF ext THEN det[k] ELSE NotCalled
        good  == ext /\ d.kind = "bpm" /\ accept_bpm(d.bpm)
    IN  [start |-> start, end |-> end, extracted |-> ext, det |-> d,
         out |-> IF good THEN Int2Rat(d.bpm)
                 ELSE IF k = 0 THEN NaN ELSE prev]

RECURSIVE hr_loop(_, _, _, _, _, _)
hr_loop(k, m, n, len, det, log) ==
    IF k >= m THEN log
    ELSE LET prev == IF k = 0 THEN NaN ELSE log[k].out
         IN  hr_loop(k + 1, m, n, len, det,
                     Append(log, chunk_entry(k, m, n, len, det, prev)))

\* the run of heart_rate on an ECG channel of `len` samples
heart_rate(len, n, det) ==
    IF n = 0
        THEN [called |-> TRUE, exc |-> "ZeroDivisionError", len |-> len,
              n |-> n, log |-> << >>, out |-> << >>]
    ELSE LET m == CeilDiv(len, n) IN
         IF m < 0
            THEN [called |-> TRUE, exc |-> "ValueError", len |-> len,
                  n |-> n, log |-> << >>, out |-> << >>]
         ELSE LET log == hr_loop(0, m, n, len, det, << >>) IN
              [called |-> TRUE, exc |-> "none", len |-> len, n |-> n,
               log |-> log, out |-> [i \in 1..m |-> log[i].out]]

NumChunks(len, n) ==
    IF n = 0 THEN 0
    ELSE IF CeilDiv(len, n) < 0 THEN 0 ELSE CeilDiv(len, n)

\* every answer of the detector on every chunk
Detectors(len, n) == [0..(NumChunks(len, n) - 1) -> DetOutcomes]

\* a few detectors: a failure on every chunk, a rising bpm, a failure on
\* the first chunk only, an implausible bpm on the later chunks
FewDetectors(len, n) ==
    { [k \in 0..(NumChunks(len, n) - 1) |-> DetFail],
      [k \in 0..(NumChunks(len, n) - 1) |->
          IF k = 0 THEN Bpm(60) ELSE Bpm(100)],
      [k \in 0..(NumChunks(len, n) - 1) |->
          IF k = 0 THEN DetFail ELSE Bpm(60)],
      [k \in 0..(NumChunks(len, n) - 1) |->
          IF k = 0 THEN Bpm(100) ELSE Bpm(220)] }

\* the detector is a function of the chunk: run again on the chunks of the
\* last run it gives the answers it gave then
SameDetector(h) == [k \in 0..(Len(h.log) - 1) |-> h.log[k + 1].det]

\* a call of heart_rate by the user of the instance
heart_rate_call ==
    /\ constructed
    /\ IF channels = NoData
          THEN /\ last_call' = Call("heart_rate", "AttributeError", "none")
               /\ UNCHANGED hr
          ELSE /\ hr' = heart_rate(Len(channels.ECG), n_samples, SameDetector(hr))
               /\ last_call' = Call("heart_rate", hr'.exc, "none")
    /\ arg_weights' = NoWeights /\ old_table' = NoTable
    /\ UNCHANGED << file, constructed, config, weights, raw_data, channels,
                    tables, extracted >>

\* ------------------------------------------------------- windowed means
RECURSIVE SortedSeq(_)
SortedSeq(S) ==
    IF S = {} THEN << >>
    ELSE LET lo == CHOOSE x \in S : \A y \in S : x <= y
         IN  << lo >> \o SortedSeq(S \ {lo})

group_key_shifted(i, n) == FloorDiv(i + 1, n)

\* np.arange(len) // n at 0-based position i
group_key(i, n) == FloorDiv(i, n)

\* series.groupby(np.arange(len(series)) // n).mean().reset_index(drop=True)
\* for n # 0: one mean per key, in ascending order of the keys
groupby_mean(series, n) ==
    LET len  == Len(series)
        keys == SortedSeq({ group_key(i, n) : i \in 0..(len - 1) })
        members(key) == { i \in 1..len : group_key(i - 1, n) = key }
        total(key) == SumSeq([j \in 1..Cardinality(members(key)) |->
                              series[SortedSeq(members(key))[j]]])
    IN  [g \in 1..Len(keys) |->
            Rat(total(keys[g]), Cardinality(members(keys[g])))]

\* alignment of a series indexed 0..Len-1 with a frame of `rows` rows
reindex(series, rows) ==
    [i \in 1..rows |-> IF i <= Len(series) THEN series[i] ELSE NaN]

\* self.time.iloc[0:-1:n].reset_index(drop=True) for n # 0
time_slice(time, n) ==
    LET len == Len(time)
        c   == IF n < 0 \/ len = 0 THEN 0 ELSE CeilDiv(len - 1, n)
    IN  [k \in 1..c |-> Int2Rat(time[(k - 1) * n + 1])]

\* ------------------------------------------------------------- resp_rate
\* outcome of nk.rsp_clean / nk.rsp_rate: an exception, or one
\* instantaneous rate per sample
RespFail == [ok |-> FALSE, rate |-> << >>]

Estimators(len) ==
    { RespFail,
      [ok |-> TRUE, rate |-> [i \in 1..len |-> 10 + 2 * i]] }

resp_rate(est, n) == groupby_mean(est.rate, n)

\* -------------------------------------------------------- process_samples
\* the frame after line 169, for n # 0
frame_time(raw, n) ==
    LET t == time_slice(raw.TIME, n) IN
    [EmptyFrame EXCEPT !.rows = Len(t), !.TIME = t, !.ECG = NaNs(Len(t)),
                       !.RESP = NaNs(Len(t)), !.GSR = NaNs(Len(t))]

\* line 170: an array assigned to a frame with an empty index gives the
\* frame its own index; otherwise the lengths must match
ecg_fits(frame, out) == (frame.rows = 0 /\ Len(out) > 0) \/ Len(out) = frame.rows

frame_ecg(frame, out) ==
    IF frame.rows = 0 /\ Len(out) > 0
        THEN [frame EXCEPT !.rows = Len(out), !.TIME = NaNs(Len(out)),
                           !.ECG = out, !.RESP = NaNs(Len(out)),
                           !.GSR = NaNs(Len(out)),
                           !.numeric = @ \cup { "ECG" }]
        ELSE [frame EXCEPT !.ECG = out, !.numeric = @ \cup { "ECG" }]

\* Dets: the answers the beat detector may give on the chunks of raw_data
process_samples(Dets) ==
    /\ constructed
    /\ arg_weights' = NoWeights /\ old_table' = NoTable
    /\ UNCHANGED << file, constructed, config, weights, raw_data, normal_data,
                    scored_data >>
    /\ IF raw_data = NoData
          THEN /\ last_call' = Call("process_samples", "AttributeError", "none")
               /\ UNCHANGED << channels, processed_data, hr >>
       ELSE
       /\ channels' = raw_data
       /\ IF n_samples = 0
             THEN \* line 169: slice step cannot be zero
                  /\ processed_data' = EmptyFrame
                  /\ last_call' = Call("process_samples", "ValueError", "none")
                  /\ UNCHANGED hr
          ELSE
          \E det \in Dets,
             est \in Estimators(Len(raw_data.RESP)) :
             LET f1 == frame_time(raw_data, n_samples)
                 h  == heart_rate(Len(raw_data.ECG), n_samples, det)
                 f2 == frame_ecg(f1, h.out)
                 f3 == [f2 EXCEPT !.RESP =
                            reindex(resp_rate(est, n_samples), f2.rows),
                                  !.numeric = @ \cup { "RESP" }]
                 \* the GSR column of a file without rows is of object
                 \* dtype, and so is its mean
                 f4 == [f3 EXCEPT !.GSR =
                            reindex(groupby_mean(raw_data.GSR, n_samples), f3.rows),
                                  !.numeric = IF Len(raw_data.GSR) > 0
                                                  THEN @ \cup { "GSR" } ELSE @]
             IN
             /\ hr' = h
             /\ IF h.exc # "none"
                   THEN /\ processed_data' = f1
                        /\ last_call' = Call("process_samples", h.exc, "heart_rate")
                ELSE IF ~ecg_fits(f1, h.out)
                   THEN /\ processed_data' = f1
                        /\ last_call' = Call("process_samples", "ValueError", "ECG")
                ELSE IF ~est.ok
                   THEN /\ processed_data' = f2
                        /\ last_call' = Call("process_samples", "Exception", "resp_rate")
                ELSE /\ processed_data' = f4
                     /\ last_call' = Call("process_samples", "none", "none")
    /\ extracted' = (extracted \/ last_call'.exc = "none")

\* ----------------------------------------------------- normalizing_values
normalize_column_by_original_max(col) ==
    [i \in 1..Len(col) |-> RDiv(RSub(col[i], ColMin(col)), ColMax(col))]

\* line 189 divides a Series by a numpy scalar: a zero divisor gives NaN or
\* inf and raises nothing, so the handler of line 190 is never entered
division_raises(col, divisor) == FALSE

\* lines 191-193, on the column as line 188 left it
fallback_column(col) ==
    LET plus    == [i \in 1..Len(col) |-> RAdd(col[i], << 1, 1 >>)]
        shifted == [i \in 1..Len(col) |-> RSub(plus[i], ColMin(plus))]
    IN  [i \in 1..Len(col) |-> RDiv(shifted[i], ColMax(shifted))]

normalize_column_unshifted(col) ==
    LET shifted == [i \in 1..Len(col) |-> RSub(col[i], ColMin(col))]
    IN  IF division_raises(shifted, ColMax(shifted))
            THEN fallback_column(shifted)
            ELSE [i \in 1..Len(col) |-> RDiv(col[i], ColMax(shifted))]

\* lines 188-189: the minimum is subtracted, then the column is divided by
\* the maximum of the column as it then is
normalize_column(col) ==
    LET shifted == [i \in 1..Len(col) |-> RSub(col[i], ColMin(col))]
    IN  IF division_raises(shifted, ColMax(shifted))
            THEN fallback_column(shifted)
            ELSE [i \in 1..Len(col) |-> RDiv(shifted[i], ColMax(shifted))]

normalizing_values ==
    /\ constructed
    /\ arg_weights' = NoWeights
    /\ UNCHANGED << file, constructed, config, weights, raw_data, channels,
                    scored_data, hr, extracted >>
    /\ IF ~processed_data.exists
          THEN /\ last_call' = Call("normalizing_values", "AttributeError", "none")
               /\ old_table' = NoTable
               /\ UNCHANGED << processed_data, normal_data >>
          ELSE /\ processed_data' =
                     [processed_data EXCEPT
                        !.ECG  = normalize_column(processed_data.ECG),
                        !.GSR  = normalize_column(processed_data.GSR),
                        !.RESP = normalize_column(processed_data.RESP)]
               /\ normal_data' = processed_data'
               /\ old_table' = processed_data
               /\ last_call' = Call("normalizing_values", "none", "none")

\* ------------------------------------------------------------ score_adding
HasKey(w, key) == \E i \in 1..Len(w.items) : w.items[i].k = key

\* self.weights[key] as a number
Weight(w, key) == Rat(w.items[Get(w, key)].v.q, 4)

\* one product of line 253, self.normal_data[key] * self.weights[key]: the
\* weight is looked up first, then the column is multiplied. A float column
\* times a str raises TypeError; an object column holds only NaN (or
\* nothing), pandas multiplies the values that are not NaN, and nothing
\* is raised
term_outcome(t, w, key) ==
    IF ~HasKey(w, key) THEN "KeyError"
    ELSE IF ~IsNumber(w.items[Get(w, key)].v) /\ key \in t.numeric
        THEN "TypeError"
    ELSE "none"

\* the exception line 253 raises on table t with these weights ("none": it
\* completes): the products are evaluated left to right, ECG, GSR, RESP,
\* and the first one to raise decides
score_outcome(t, w) ==
    IF ~w.isdict THEN "TypeError"
    ELSE IF term_outcome(t, w, "ECG") # "none" THEN term_outcome(t, w, "ECG")
    ELSE IF term_outcome(t, w, "GSR") # "none" THEN term_outcome(t, w, "GSR")
    ELSE term_outcome(t, w, "RESP")

stress_score_without_resp(t, w) ==
    [k \in 1..t.rows |->
        RAdd(RMul(t.ECG[k], Weight(w, "ECG")),
             RMul(t.GSR[k], Weight(w, "GSR")))]

stress_score(t, w) ==
    [k \in 1..t.rows |->
        RAdd(RAdd(RMul(t.ECG[k], Weight(w, "ECG")),
                  RMul(t.GSR[k], Weight(w, "GSR"))),
             RMul(t.RESP[k], Weight(w, "RESP")))]

score_adding ==
    /\ constructed
    /\ arg_weights' = NoWeights /\ old_table' = NoTable
    /\ UNCHANGED << file, constructed, config, weights, raw_data, channels,
                    processed_data, hr, extracted >>
    /\ IF ~normal_data.exists
          THEN /\ last_call' = Call("score_adding", "AttributeError", "none")
               /\ UNCHANGED << normal_data, scored_data >>
       ELSE IF score_outcome(normal_data, weights) # "none"
          THEN /\ last_call' = Call("score_adding",
                                    score_outcome(normal_data, weights), "none")
               /\ UNCHANGED << normal_data, scored_data >>
       ELSE /\ normal_data' = [normal_data EXCEPT
                                  !.scored = TRUE,
                                  !.Stress_Score = stress_score(normal_data, weights)]
            /\ scored_data' = normal_data'
            /\ last_call' = Call("score_adding", "none", "none")

\* ------------------------------------------------------------------- Next
Next ==
    \/ OfflineAnalysisANS_init(CoreCandidates)
    \/ change_weights(CoreCandidates)
    \/ read_data
    \/ process_samples(FewDetectors(Len(raw_data.ECG), n_samples))
    \/ heart_rate_call
    \/ normalizing_values
    \/ score_adding

Spec == Init /\ [][Next]_vars

\* extraction alone, over every answer of the beat detector; the GSR
\* channel plays no part and is all zero
NextHeartRate ==
    \/ OfflineAnalysisANS_init({DefaultWeights})
    \/ read_data
    \/ process_samples(Detectors(Len(raw_data.ECG), n_samples))
    \/ heart_rate_call

InitHeartRate == Init /\ \A i \in 1..Len(file.GSR) : file.GSR[i] = 0

SpecHeartRate == InitHeartRate /\ [][NextHeartRate]_vars

NextWeights ==
    \/ OfflineAnalysisANS_init(WideCandidates)
    \/ change_weights(WideCandidates)

\* construction and reconfiguration of the weights alone, over every
\* candidate; the data file plays no part and is the empty recording
InitWeights == Init /\ Len(file.TIME) = 0

SpecWeights == InitWeights /\ [][NextWeights]_vars

\* ===================================================================
\* Properties
\* ===================================================================

\* the declared conditions of a valid weight set
WellFormed(w) ==
    /\ w.isdict
    /\ Len(w.items) = 3
    /\ \A i \in 1..Len(w.items) : i <= 3 /\ w.items[i].k = KEYS[i]
    /\ \A i \in 1..Len(w.items) : w.items[i].v.t \in {"int", "float", "bool"}
    /\ SumSeq(ValuesOf(w)) = 4
    /\ \A i \in 1..Len(w.items) : w.items[i].v.q >= 0

\* the last call ran the validation of its weights argument
Validated ==
    \/ last_call.op = "change_weights"
    \/ /\ last_call.op = "__init__"
       /\ last_call.msg \notin { "BAD_PATH_TYPE_MESSAGE",
                                 "DIRECTORY_NOT_EXISTING_MESSAGE",
                                 "BAD_SAMPLE_RATE_TYPE_MESSAGE",
                                 "BAD_TIME_WINDOW_TYPE_MESSAGE" }

\* C1: a change_weights call whose candidate fails validation leaves
\* self.weights equal to the weight set in effect before the call.
C1_InvalidCandidateLeavesWeights ==
    [][ (last_call'.op = "change_weights" /\ ~WellFormed(arg_weights'))
            => weights' = weights ]_vars

\* C2: change_weights called with a candidate that fails validation
\* completes normally, no exception propagates out of the call.
C2_ChangeWeightsDoesNotRaise ==
    last_call.op = "change_weights" => last_call.exc = "none"

\* C3: validation, at construction and in change_weights, accepts the
\* candidate if and only if it is a mapping of exactly 3 entries with the
\* keys ECG, GSR, RESP in that order, numeric values, sum 1, none negative.
C3_ValidationAcceptsIffWellFormed ==
    Validated => (last_call.exc = "none" <=> WellFormed(arg_weights))

\* a candidate of the right shape and sum 1 is rejected for a negative value
C3_Witness ==
    /\ last_call.op = "change_weights"
    /\ last_call.exc = "ValueError"
    /\ arg_weights.isdict /\ KeysOf(arg_weights) = KEYS
    /\ \A i \in 1..3 : IsNumber(arg_weights.items[i].v)
    /\ SumSeq(ValuesOf(arg_weights)) = 4
    /\ \E i \in 1..3 : arg_weights.items[i].v.q < 0

\* C4: every constructed pipeline has a positive sample_rate and
\* time_window, hence n_samples = time_window * sample_rate > 0.
C4_ConstructedHasPositiveWindow ==
    constructed => (sample_rate > 0 /\ time_window > 0 /\ n_samples > 0)

\* the detector succeeded on the chunk with a plausible bpm
Good(e) == e.extracted /\ e.det.kind = "bpm" /\ e.det.bpm < 220

\* C5: output[k] is the detector's bpm when the detector succeeds on chunk k
\* with bpm < 220; otherwise NaN for the first chunk and output[k-1] for a
\* later one.  No candidate >= 220 is written, and a run of failing chunks
\* repeats the value of the chunk before the run.
C5_HeartRateCarryForward ==
    (hr.called /\ hr.exc = "none") =>
        /\ Len(hr.out) = Len(hr.log)
        /\ \A k \in 1..Len(hr.log) :
              /\ hr.out[k] = IF Good(hr.log[k]) THEN << hr.log[k].det.bpm, 1 >>
                             ELSE IF k = 1 THEN NaN ELSE hr.out[k - 1]
              /\ IsNA(hr.out[k]) \/ hr.out[k][1] < 220 * hr.out[k][2]
        /\ \A j \in 1..Len(hr.log), k \in 1..Len(hr.log) :
              (j < k /\ \A i \in (j + 1)..k : ~Good(hr.log[i]))
                  => hr.out[k] = hr.out[j]

\* a bpm of 220 is rejected on a later chunk and two failing chunks in a row
\* repeat an accepted bpm
C5_Witness ==
    /\ hr.called /\ hr.exc = "none" /\ Len(hr.log) >= 3
    /\ \E k \in 2..(Len(hr.log) - 1) :
          /\ Good(hr.log[k - 1])
          /\ hr.log[k].extracted /\ hr.log[k].det = Bpm(220)
          /\ ~Good(hr.log[k + 1])
          /\ hr.out[k + 1] = << hr.log[k - 1].det.bpm, 1 >>

\* C6: for every accepted pipeline and every loaded ECG channel, heart_rate
\* returns a series; no failure propagates to its caller.
C6_HeartRateNeverRaises ==
    (constructed /\ hr.called) => hr.exc = "none"

Min(a, b) == IF a < b THEN a ELSE b

\* C7: for L > 0 and n_samples > 0 the range extracted for chunk k and
\* handed to the detector is [k*n_samples, min((k+1)*n_samples, L)).
C7_ChunkRangeClampedToLength ==
    (hr.called /\ hr.exc = "none" /\ hr.len > 0 /\ hr.n > 0) =>
        \A k \in 1..Len(hr.log) :
            /\ hr.log[k].extracted
            /\ hr.log[k].start = (k - 1) * hr.n
            /\ hr.log[k].end = Min(k * hr.n, hr.len)

\* process_samples ran on a loaded recording of L > 0 samples with
\* n_samples > 0 and the breathing-rate estimator did not fail
ExtractionRan ==
    /\ last_call.op = "process_samples"
    /\ channels # NoData /\ Len(channels.TIME) > 0
    /\ n_samples > 0
    /\ last_call.msg # "resp_rate"

\* C8: for L > 0 and n_samples > 0 process_samples completes with a table of
\* ceil(L/n_samples) rows, TIME, ECG, RESP and GSR of that length, and
\* TIME[k] the timestamp of the sample at index k*n_samples.
C8_TableHasOneRowPerWindow ==
    ExtractionRan =>
        LET rows == CeilDiv(Len(channels.TIME), n_samples) IN
        /\ last_call.exc = "none"
        /\ processed_data.rows = rows
        /\ Len(processed_data.TIME) = rows /\ Len(processed_data.ECG) = rows
        /\ Len(processed_data.RESP) = rows /\ Len(processed_data.GSR) = rows
        /\ \A k \in 0..(rows - 1) :
              processed_data.TIME[k + 1] = << TimeAt(k * n_samples), 1 >>

RECURSIVE SumRange(_, _, _)
SumRange(series, lo, hi) ==
    IF lo >= hi THEN 0 ELSE series[lo + 1] + SumRange(series, lo + 1, hi)

\* arithmetic mean of the samples at the 0-based indices lo..hi-1
MeanOfRange(series, lo, hi) == Rat(SumRange(series, lo, hi), hi - lo)

\* C9: after process_samples the GSR value of row k is the arithmetic mean
\* of the raw GSR samples at indices [k*n_samples, min((k+1)*n_samples, L)),
\* one row per window.
C9_GsrIsMeanOfChunk ==
    (last_call.op = "process_samples" /\ last_call.exc = "none"
        /\ n_samples > 0) =>
        LET L == Len(raw_data.GSR) IN
        /\ processed_data.rows = CeilDiv(L, n_samples)
        /\ \A k \in 0..(processed_data.rows - 1) :
              processed_data.GSR[k + 1] =
                  MeanOfRange(raw_data.GSR, k * n_samples,
                              Min((k + 1) * n_samples, L))

\* two windows of two samples whose means differ, one of them 1/2
C9_Witness ==
    /\ last_call.op = "process_samples" /\ last_call.exc = "none"
    /\ n_samples = 2 /\ processed_data.rows = 2
    /\ processed_data.GSR[1] = << 1, 2 >>
    /\ processed_data.GSR[2] # processed_data.GSR[1]

Columns == { "ECG", "GSR", "RESP" }

NormalizeRan == last_call.op = "normalizing_values" /\ last_call.exc = "none"

\* C10 as stated: for a column whose maximum is nonzero every value v
\* becomes (v - min) / max, min and max those of the column before.
C10_DividesByOriginalMax ==
    NormalizeRan =>
        \A c \in Columns :
            LET old == old_table[c]
                mn  == ColMin(old)
                mx  == ColMax(old)
            IN  (~IsNA(mx) /\ mx[1] # 0) =>
                    \A k \in 1..Len(old) :
                        ~IsNA(old[k]) =>
                            processed_data[c][k] = RDiv(RSub(old[k], mn), mx)

\* C10 (amended): for a column whose maximum differs from its minimum every
\* defined value v becomes (v - min) / (max - min), min and max those of
\* the column before; the normalized table is a copy of the result.
C10_DividesByRange ==
    NormalizeRan =>
        /\ normal_data = processed_data
        /\ \A c \in Columns :
            LET old == old_table[c]
                mn  == ColMin(old)
                mx  == ColMax(old)
            IN  (~IsNA(mx) /\ mx # mn) =>
                    \A k \in 1..Len(old) :
                        processed_data[c][k] =
                            IF IsNA(old[k]) THEN NaN
                            ELSE RDiv(RSub(old[k], mn), RSub(mx, mn))

\* a column with two different values and a nonzero minimum was normalized
C10_Witness ==
    /\ NormalizeRan
    /\ \E c \in Columns :
          /\ ~IsNA(ColMin(old_table[c]))
          /\ ColMin(old_table[c])[1] # 0
          /\ ColMax(old_table[c]) # ColMin(old_table[c])
          /\ \E k \in 1..Len(old_table[c]) :
                processed_data[c][k] = << 1, 1 >>

\* the column after 1 is added to every value, the minimum recomputed and
\* the column rescaled by the new maximum
RescaledPlusOne(old) ==
    LET plus == [i \in 1..Len(old) |-> RAdd(old[i], << 1, 1 >>)]
    IN  [i \in 1..Len(old) |->
            RDiv(RSub(plus[i], ColMin(plus)), ColMax(plus))]

\* C11: for a column whose maximum is exactly 0 normalizing_values takes the
\* fallback: 1 is added to every value, min is recomputed and the column is
\* rescaled with the new max; the result is that value and not the result
\* of a division by zero.
C11_ZeroMaxTakesFallback ==
    NormalizeRan =>
        \A c \in Columns :
            ColMax(old_table[c]) = << 0, 1 >> =>
                \A k \in 1..Len(old_table[c]) :
                    ~IsNA(old_table[c][k]) =>
                        /\ ~IsNA(processed_data[c][k])
                        /\ processed_data[c][k] = RescaledPlusOne(old_table[c])[k]

\* the weight of a key as the number of quarters its entry holds
Quarters(w, key) == w.items[CHOOSE i \in 1..Len(w.items) : w.items[i].k = key].v.q

\* C12: score_adding sets Stress_Score[k] = ECG[k]*w_ECG + GSR[k]*w_GSR +
\* RESP[k]*w_RESP with the normalized columns and the weights in effect at
\* the call, and leaves the TIME, ECG, GSR and RESP columns as they were.
C12_ScoreIsWeightedSum ==
    [][ (last_call'.op = "score_adding" /\ last_call'.exc = "none") =>
          /\ scored_data'.rows = normal_data.rows
          /\ Len(scored_data'.Stress_Score) = normal_data.rows
          /\ \A k \in 1..normal_data.rows :
                scored_data'.Stress_Score[k] =
                    IF IsNA(normal_data.ECG[k]) \/ IsNA(normal_data.GSR[k])
                           \/ IsNA(normal_data.RESP[k])
                    THEN NaN
                    ELSE LET e == normal_data.ECG[k]
                             g == normal_data.GSR[k]
                             r == normal_data.RESP[k]
                         IN  Rat(e[1] * Quarters(weights, "ECG") * g[2] * r[2]
                                   + g[1] * Quarters(weights, "GSR") * e[2] * r[2]
                                   + r[1] * Quarters(weights, "RESP") * e[2] * g[2],
                                 4 * e[2] * g[2] * r[2])
          /\ \A c \in Columns \cup { "TIME" } :
                /\ scored_data'[c] = normal_data[c]
                /\ normal_data'[c] = normal_data[c]
          /\ weights' = weights ]_vars

\* weights (0.5, 0.5, 0) gave a row with a defined score of 0.5
C12_Witness ==
    /\ last_call.op = "score_adding" /\ last_call.exc = "none"
    /\ weights = W3(WVal("float", 2), WVal("float", 2), WVal("float", 0))
    /\ \E k \in 1..scored_data.rows :
          /\ scored_data.Stress_Score[k] = << 1, 2 >>
          /\ scored_data.RESP[k] # << 0, 1 >>

\* C13: a stage completes successfully only if the stage before it has
\* completed successfully on the instance: process_samples after read_data,
\* normalizing_values after process_samples, score_adding after
\* normalizing_values.
C13_StageNeedsPrecedingStage ==
    last_call.exc = "none" =>
        /\ last_call.op = "process_samples" => raw_data # NoData
        /\ last_call.op = "normalizing_values" => extracted
        /\ last_call.op = "score_adding" =>
              (normal_data.exists /\ extracted)

\* the operations of the stages before Scored
EarlierStageOps == { "read_data", "process_samples", "normalizing_values" }

\* C14: no pipeline state transition is reversible: once an instance has
\* reached Scored, no operation takes it back to an earlier stage. On an
\* instance that holds a scored table no operation of an earlier stage
\* completes (running the pipeline again takes a fresh instance), the
\* loaded and the extracted table are not replaced, and the normalized
\* table keeps its Stress_Score.
C14_ScoredIsNeverLeft ==
    [][ (scored_data.exists /\ normal_data.scored) =>
          /\ ~(last_call'.op \in EarlierStageOps /\ last_call'.exc = "none")
          /\ raw_data' = raw_data
          /\ processed_data' = processed_data
          /\ normal_data'.scored ]_vars

InUnitRange(x) == x[1] >= 0 /\ x[1] <= x[2]

\* C15: after normalizing_values every defined value of ECG, GSR and RESP
\* lies in [0, 1]; each column is rescaled on its own, so that a column with
\* two different values has minimum 0 and maximum 1.
C15_NormalizedInUnitRange ==
    NormalizeRan =>
        \A c \in Columns :
            /\ \A k \in 1..Len(normal_data[c]) :
                  IsNA(normal_data[c][k]) \/ InUnitRange(normal_data[c][k])
            /\ (~IsNA(ColMax(old_table[c]))
                    /\ ColMax(old_table[c]) # ColMin(old_table[c])) =>
                  /\ ColMin(normal_data[c]) = << 0, 1 >>
                  /\ ColMax(normal_data[c]) = << 1, 1 >>

\* the three columns, of different ranges before, all span [0, 1] after
C15_Witness ==
    /\ NormalizeRan
    /\ \A c \in Columns :
          /\ ColMin(normal_data[c]) = << 0, 1 >>
          /\ ColMax(normal_data[c]) = << 1, 1 >>
    /\ ColMax(old_table.ECG) # ColMax(old_table.GSR)
    /\ ColMax(old_table.GSR) # ColMax(old_table.RESP)

\* C16: the weight set in effect on a constructed pipeline is always a
\* mapping from exactly ECG, GSR, RESP to non-negative numbers of sum 1, so
\* score_adding never runs with an invalid weight set.
C16_WeightsInEffectAreValid ==
    constructed => WellFormed(weights)

====
